---- MODULE Spec2Model ----
(***************************************************************************)
(* Model of the dental-clinic scheduling backend (agenda_api): the         *)
(* appointment routes (create, update, status change, cancel), their       *)
(* conflict query and the status log; the patient and dentist routes; the  *)
(* dashboard queries; and the phone formatting of the WhatsApp service,    *)
(* over the tables of the Data Store.                                      *)
(***************************************************************************)
EXTENDS Integers, Sequences, FiniteSets

\* ------------------------------------------------------------------ bounds

\* Instants are 0..MaxTime (dataHoraInicio / dataHoraFim of a request).
MaxTime == 3
\* Rows the appointment table may hold (ids are 1..MaxAppts, autoincrement).
MaxAppts == 2
\* Rows the status-log table may hold.
MaxLogs == 4
\* Registered users (ids 1..MaxUsers), each able to log in.
MaxUsers == 2
\* Rows the patient table may hold (ids are 1..MaxPatients, autoincrement).
MaxPatients == 3
\* Rows the dentist table may hold (ids are 1..MaxDentists, autoincrement).
MaxDentists == 4
\* Characters of the phone strings drawn in full (longer ones are given one by one).
MaxPhoneLen == 4

\* Digits of a subscriber number.
MaxSubscriberLen == 3

\* Entries of the messages array in an answer of the provider.
MaxMessages == 2

Times == 0..MaxTime
Users == 1..MaxUsers

\* ------------------------------------------------------------- data model

\* updateStatusSchema: the values a status may take.
Statuses == {"agendada", "confirmada", "em_andamento", "concluida", "cancelada"}

\* Status of a freshly inserted appointment row (column default of the schema).
DefaultStatus == "agendada"

\* Patient ids a request may name: at the start 1 is active, 2 is soft-deleted
\* and 3 is not stored.
PatientIds == 1..3
\* Dentist ids a request may name: at the start 1 and 2 are active, 3 is
\* soft-deleted and 4 is not stored.
DentistIds == 1..4

\* The names a patient body may carry.
Names == {"Ana", "Bia"}

\* The license numbers (CRO) a dentist body may carry.
Cros == {"SP-1", "SP-2", "SP-3", "SP-4"}

\* `ativo` of a freshly inserted patient or dentist row (column default).
DefaultAtivo == TRUE

VARIABLES
    patients,       \* patient table: sequence of rows [ativo, nome], the id is the index
    dentists,       \* dentist table: sequence of rows [ativo, cro], the id is the index
    appointments,   \* appointment table: sequence of rows, the row's id is its index
    statusLogs,     \* status-log table, in insertion order
    resp,           \* the reply of the last request that completed
    reqs            \* requests in flight (handlers suspended at an await)

vars == <<patients, dentists, appointments, statusLogs, resp, reqs>>

\* The slots for concurrently running handlers.
Slots == {"r1", "r2"}

Idle == [pc |-> "idle"]

NoResp == [op |-> "none", status |-> 0, message |-> ""]

Reply(op, status, message) == [op |-> op, status |-> status, message |-> message]

\* ------------------------------------------------------------------- auth

\* POST /login: the payload app.jwt.sign puts in the token for user `id`
\* ({nome, perfil} with the id as the subject claim).
SignToken(id) == [sub |-> id, perfil |-> "atendente"]

\* request.jwtVerify(): request.user is the decoded payload of the token.
jwtVerify(token) == token

\* The tokens the server has signed, one per registered user.
Tokens == { SignToken(u) : u \in Users }

\* A request that carries no bearer credential.
NoToken == [sub |-> 0, perfil |-> ""]

\* Whether request.jwtVerify() resolves (it throws on a missing, malformed or
\* wrongly signed token, and the handler then replies 401).
jwtVerifyOk(token) == token \in Tokens

\* reply.status(401).send({ message: "Unauthorized" })
Unauthorized(op) == [op |-> op, status |-> 401, message |-> "Unauthorized"]

\* The fallback actor of `(request.user as any).userId || 1`.
DefaultActor == 1

\* (request.user as any).userId || 1
usuarioId(user) ==
    IF "userId" \in DOMAIN user /\ user["userId"] # 0
    THEN user["userId"]
    ELSE DefaultActor

\* --------------------------------------------------------- conflict query

\* The query without its third clause (a stored interval inside the candidate).
OrClauses_NoContained(row, dataHoraInicio, dataHoraFim) ==
    \/ (row.dataHoraInicio <= dataHoraInicio /\ row.dataHoraFim > dataHoraInicio)
    \/ (row.dataHoraInicio < dataHoraFim /\ row.dataHoraFim >= dataHoraFim)

\* The query with `gte` for the `gt` of its first clause (closed intervals).
OrClauses_Closed(row, dataHoraInicio, dataHoraFim) ==
    \/ (row.dataHoraInicio <= dataHoraInicio /\ row.dataHoraFim >= dataHoraInicio)
    \/ (row.dataHoraInicio < dataHoraFim /\ row.dataHoraFim >= dataHoraFim)
    \/ (row.dataHoraInicio >= dataHoraInicio /\ row.dataHoraFim <= dataHoraFim)

\* The three OR clauses of the prisma.appointment.findFirst `where`.
OrClauses(row, dataHoraInicio, dataHoraFim) ==
    \/ (row.dataHoraInicio <= dataHoraInicio /\ row.dataHoraFim > dataHoraInicio)
    \/ (row.dataHoraInicio < dataHoraFim /\ row.dataHoraFim >= dataHoraFim)
    \/ (row.dataHoraInicio >= dataHoraInicio /\ row.dataHoraFim <= dataHoraFim)

\* The status filter keeping confirmed rows only.
NotCancelled_ConfirmedOnly(row) == row.status \in {"confirmada"}

\* status: { notIn: ['cancelada'] }
NotCancelled(row) == row.status \notin {"cancelada"}

\* The rows matched by the conflict query; `exclude` is the id of `id: { not: id }`
\* (0, which is no row's id, on create).
conflictingAppointment(rows, exclude, dentistaId, dataHoraInicio, dataHoraFim) ==
    { i \in DOMAIN rows :
        /\ i # exclude
        /\ rows[i].dentistaId = dentistaId
        /\ NotCancelled(rows[i])
        /\ OrClauses(rows[i], dataHoraInicio, dataHoraFim) }

\* ----------------------------------------------------------- table writes

\* prisma.appointment.create
appointmentCreate(rows, pacienteId, dentistaId, dataHoraInicio, dataHoraFim) ==
    Append(rows, [pacienteId |-> pacienteId, dentistaId |-> dentistaId,
                  dataHoraInicio |-> dataHoraInicio, dataHoraFim |-> dataHoraFim,
                  status |-> DefaultStatus])

\* prisma.appointment.update({ where: { id }, data })
appointmentUpdate(rows, id, data) ==
    [rows EXCEPT ![id] =
        [k \in DOMAIN rows[id] |-> IF k \in DOMAIN data THEN data[k] ELSE rows[id][k]]]

\* A log write that puts the new entry in front of the stored ones.
statusLogCreate_Prepend(logs, consultaId, status, actor) ==
    <<[consultaId |-> consultaId, status |-> status, usuarioId |-> actor]>> \o logs

\* prisma.statusLog.create
statusLogCreate(logs, consultaId, status, actor) ==
    Append(logs, [consultaId |-> consultaId, status |-> status, usuarioId |-> actor])

\* The log entries of appointment `id`, in insertion order.
LogsOf(logs, id) == SelectSeq(logs, LAMBDA entry : entry.consultaId = id)

\* orderBy: { dataAlteracao: 'desc' } of a sequence kept in insertion order.
Desc(seq) == [i \in 1..Len(seq) |-> seq[Len(seq) + 1 - i]]

\* !patient || !patient.ativo
PatientMissing(id) == id \notin DOMAIN patients \/ ~patients[id].ativo

\* !dentist || !dentist.ativo
DentistMissing(id) == id \notin DOMAIN dentists \/ ~dentists[id].ativo

\* ---------------------------------------------------------------- initial

\* The clinic at the start: patient 1 active and patient 2 soft-deleted; dentists
\* 1 and 2 active and dentist 3 soft-deleted, each with a license number of its own.
Init ==
    /\ patients = << [ativo |-> TRUE, nome |-> "Ana"], [ativo |-> FALSE, nome |-> "Bia"] >>
    /\ dentists = << [ativo |-> TRUE, cro |-> "SP-1"], [ativo |-> TRUE, cro |-> "SP-2"],
                     [ativo |-> FALSE, cro |-> "SP-3"] >>
    /\ appointments = <<>>
    /\ statusLogs = <<>>
    /\ resp = NoResp
    /\ reqs = [s \in Slots |-> Idle]

\* ------------------------------------------------- handlers, run to the end

\* The reply of POST /appointments with the dentist looked up before the patient.
CreateReply_DentistFirst(rows, pacienteId, dentistaId, dataHoraInicio, dataHoraFim) ==
    IF DentistMissing(dentistaId)
    THEN Reply("create", 404, "Dentista nao encontrado")
    ELSE IF PatientMissing(pacienteId)
    THEN Reply("create", 404, "Paciente nao encontrado")
    ELSE IF conflictingAppointment(rows, 0, dentistaId, dataHoraInicio, dataHoraFim) # {}
    THEN Reply("create", 400, "Dentista ja possui consulta neste horario")
    ELSE Reply("create", 201, "")

\* The reply POST /appointments sends when the Data Store accepts its writes: the
\* early returns of the handler, in the handler's order, else 201.
CreateReply(rows, pacienteId, dentistaId, dataHoraInicio, dataHoraFim) ==
    IF PatientMissing(pacienteId)
    THEN Reply("create", 404, "Paciente nao encontrado")
    ELSE IF DentistMissing(dentistaId)
    THEN Reply("create", 404, "Dentista nao encontrado")
    ELSE IF conflictingAppointment(rows, 0, dentistaId, dataHoraInicio, dataHoraFim) # {}
    THEN Reply("create", 400, "Dentista ja possui consulta neste horario")
    ELSE Reply("create", 201, "")

\* POST /appointments by the holder of `token`. logOk: whether the Data Store
\* accepts the statusLog.create that follows the insert.
Create(token, pacienteId, dentistaId, dataHoraInicio, dataHoraFim, logOk) ==
    /\ UNCHANGED <<patients, dentists, reqs>>
    /\ IF ~jwtVerifyOk(token)
       THEN /\ resp' = Unauthorized("create")
            /\ UNCHANGED <<appointments, statusLogs>>
       ELSE IF CreateReply(appointments, pacienteId, dentistaId,
                           dataHoraInicio, dataHoraFim).status # 201
       THEN /\ resp' = CreateReply(appointments, pacienteId, dentistaId,
                                   dataHoraInicio, dataHoraFim)
            /\ UNCHANGED <<appointments, statusLogs>>
       ELSE /\ Len(appointments) < MaxAppts
            /\ Len(statusLogs) < MaxLogs
            /\ appointments' = appointmentCreate(appointments, pacienteId, dentistaId,
                                                 dataHoraInicio, dataHoraFim)
            /\ IF logOk
               THEN /\ statusLogs' = statusLogCreate(statusLogs, Len(appointments'),
                                         "agendada", usuarioId(jwtVerify(token)))
                    /\ resp' = Reply("create", 201, "")
               ELSE /\ UNCHANGED statusLogs
                    /\ resp' = Reply("create", 500, "Internal Server Error")

\* PATCH /appointments/:id/status writing a log entry only when the status changes.
SetStatus_LogOnChange(token, id, status, logOk) ==
    /\ UNCHANGED <<patients, dentists, reqs>>
    /\ IF ~jwtVerifyOk(token)
       THEN /\ resp' = Unauthorized("setStatus")
            /\ UNCHANGED <<appointments, statusLogs>>
       ELSE IF id \notin DOMAIN appointments
       THEN /\ resp' = Reply("setStatus", 404, "Consulta nao encontrada")
            /\ UNCHANGED <<appointments, statusLogs>>
       ELSE /\ Len(statusLogs) < MaxLogs
            /\ appointments' = appointmentUpdate(appointments, id, [status |-> status])
            /\ statusLogs' = IF appointments[id].status = status
                             THEN statusLogs
                             ELSE statusLogCreate(statusLogs, id, status,
                                                  usuarioId(jwtVerify(token)))
            /\ resp' = Reply("setStatus", 200, "")

\* PATCH /appointments/:id/status
SetStatus(token, id, status, logOk) ==
    /\ UNCHANGED <<patients, dentists, reqs>>
    /\ IF ~jwtVerifyOk(token)
       THEN /\ resp' = Unauthorized("setStatus")
            /\ UNCHANGED <<appointments, statusLogs>>
       ELSE IF id \notin DOMAIN appointments
       THEN /\ resp' = Reply("setStatus", 404, "Consulta nao encontrada")
            /\ UNCHANGED <<appointments, statusLogs>>
       ELSE /\ Len(statusLogs) < MaxLogs
            /\ appointments' = appointmentUpdate(appointments, id, [status |-> status])
            /\ IF logOk
               THEN /\ statusLogs' = statusLogCreate(statusLogs, id, status,
                                                     usuarioId(jwtVerify(token)))
                    /\ resp' = Reply("setStatus", 200, "")
               ELSE /\ UNCHANGED statusLogs
                    /\ resp' = Reply("setStatus", 500, "Internal Server Error")

\* DELETE /appointments/:id marking the row cancelled without a log entry.
Cancel_NoLog(token, id, logOk) ==
    /\ UNCHANGED <<patients, dentists, reqs>>
    /\ IF ~jwtVerifyOk(token)
       THEN /\ resp' = Unauthorized("cancel")
            /\ UNCHANGED <<appointments, statusLogs>>
       ELSE IF id \notin DOMAIN appointments
       THEN /\ resp' = Reply("cancel", 404, "Consulta nao encontrada")
            /\ UNCHANGED <<appointments, statusLogs>>
       ELSE /\ appointments' = appointmentUpdate(appointments, id, [status |-> "cancelada"])
            /\ UNCHANGED statusLogs
            /\ resp' = Reply("cancel", 200, "Consulta cancelada com sucesso")

\* DELETE /appointments/:id
Cancel(token, id, logOk) ==
    /\ UNCHANGED <<patients, dentists, reqs>>
    /\ IF ~jwtVerifyOk(token)
       THEN /\ resp' = Unauthorized("cancel")
            /\ UNCHANGED <<appointments, statusLogs>>
       ELSE IF id \notin DOMAIN appointments
       THEN /\ resp' = Reply("cancel", 404, "Consulta nao encontrada")
            /\ UNCHANGED <<appointments, statusLogs>>
       ELSE /\ Len(statusLogs) < MaxLogs
            /\ appointments' = appointmentUpdate(appointments, id, [status |-> "cancelada"])
            /\ IF logOk
               THEN /\ statusLogs' = statusLogCreate(statusLogs, id, "cancelada",
                                                     usuarioId(jwtVerify(token)))
                    /\ resp' = Reply("cancel", 200, "Consulta cancelada com sucesso")
               ELSE /\ UNCHANGED statusLogs
                    /\ resp' = Reply("cancel", 500, "Internal Server Error")

\* updateAppointmentSchema: the optional fields of a PUT body that reach the row.
UpdateFields == {"pacienteId", "dentistaId", "dataHoraInicio", "dataHoraFim"}

\* The PUT bodies naming patients of P, dentists of D and instants of T: every
\* subset of the optional fields, each supplied field with a value of its type.
UpdateBodies(P, D, T) ==
    UNION { { data \in [K -> P \cup D \cup T] :
                /\ "pacienteId" \in K => data["pacienteId"] \in P
                /\ "dentistaId" \in K => data["dentistaId"] \in D
                /\ "dataHoraInicio" \in K => data["dataHoraInicio"] \in T
                /\ "dataHoraFim" \in K => data["dataHoraFim"] \in T }
            : K \in SUBSET UpdateFields }

\* data.k || appointment.k (a Date and a positive id are truthy when supplied)
Field(data, appointment, k) == IF k \in DOMAIN data THEN data[k] ELSE appointment[k]

\* data.dataHoraInicio || data.dataHoraFim || data.dentistaId
ChecksConflict(data) ==
    "dataHoraInicio" \in DOMAIN data \/ "dataHoraFim" \in DOMAIN data
        \/ "dentistaId" \in DOMAIN data

\* Whether prisma.appointment.update finds the rows its data refers to (the
\* relations of Appointment to Patient and Dentist).
ForeignKeyOk(data) ==
    /\ "pacienteId" \in DOMAIN data => data["pacienteId"] \in DOMAIN patients
    /\ "dentistaId" \in DOMAIN data => data["dentistaId"] \in DOMAIN dentists

\* A request body that carries a status besides the fields of `data`.
WithStatus(data, status) ==
    [k \in DOMAIN data \cup {"status"} |-> IF k = "status" THEN status ELSE data[k]]

\* A body schema that hands every key of the body to the handler.
updateAppointmentSchema_Passthrough(body) == body

\* updateAppointmentSchema: z.object(...) parses the body and drops the keys it
\* does not declare; request.body is what it returns.
updateAppointmentSchema(body) ==
    [k \in DOMAIN body \cap UpdateFields |-> body[k]]

\* The reply of PUT /appointments/:id: the early returns of the handler, in the
\* handler's order, else the updated row (200).
UpdateReply(rows, id, data) ==
    IF id \notin DOMAIN rows
    THEN Reply("update", 404, "Consulta nao encontrada")
    ELSE IF /\ ChecksConflict(data)
            /\ conflictingAppointment(rows, id,
                                      Field(data, rows[id], "dentistaId"),
                                      Field(data, rows[id], "dataHoraInicio"),
                                      Field(data, rows[id], "dataHoraFim")) # {}
    THEN Reply("update", 400, "Dentista ja possui consulta neste horario")
    ELSE IF ~ForeignKeyOk(data)
    THEN Reply("update", 500, "Internal Server Error")
    ELSE Reply("update", 200, "")

\* PUT /appointments/:id
Update(token, id, data) ==
    /\ UNCHANGED <<patients, dentists, statusLogs, reqs>>
    /\ IF ~jwtVerifyOk(token)
       THEN /\ resp' = Unauthorized("update")
            /\ UNCHANGED appointments
       ELSE /\ resp' = UpdateReply(appointments, id, data)
            /\ appointments' = IF UpdateReply(appointments, id, data).status = 200
                               THEN appointmentUpdate(appointments, id, data)
                               ELSE appointments

\* ------------------------------------------------- patient and dentist routes

\* prisma.patient.update / prisma.dentist.update({ where: { id }, data })
rowUpdate(rows, id, data) ==
    [rows EXCEPT ![id] =
        [k \in DOMAIN rows[id] |-> IF k \in DOMAIN data THEN data[k] ELSE rows[id][k]]]

\* POST /patients: the route runs no request.jwtVerify().
PatientCreate(token, nome) ==
    /\ Len(patients) < MaxPatients
    /\ patients' = Append(patients, [ativo |-> DefaultAtivo, nome |-> nome])
    /\ resp' = Reply("patientCreate", 201, "")
    /\ UNCHANGED <<dentists, appointments, statusLogs, reqs>>

\* The reply of GET /patients/:id when the credential is valid.
PatientGetReply(rows, id) ==
    IF id \notin DOMAIN rows \/ ~rows[id].ativo
    THEN Reply("patientGet", 404, "Paciente nao encontrado")
    ELSE Reply("patientGet", 200, "")

\* The ids GET /patients lists when the credential is valid (where: { ativo: true }).
PatientList(rows) == { i \in DOMAIN rows : rows[i].ativo }

\* PUT /patients/:id that looks only for the row, whether active or not.
PatientUpdate_AnyRow(token, id, data) ==
    /\ UNCHANGED <<dentists, appointments, statusLogs, reqs>>
    /\ IF ~jwtVerifyOk(token)
       THEN /\ resp' = Unauthorized("patientUpdate")
            /\ UNCHANGED patients
       ELSE IF id \notin DOMAIN patients
       THEN /\ resp' = Reply("patientUpdate", 404, "Paciente nao encontrado")
            /\ UNCHANGED patients
       ELSE /\ patients' = rowUpdate(patients, id, data)
            /\ resp' = Reply("patientUpdate", 200, "")

\* PUT /patients/:id
PatientUpdate(token, id, data) ==
    /\ UNCHANGED <<dentists, appointments, statusLogs, reqs>>
    /\ IF ~jwtVerifyOk(token)
       THEN /\ resp' = Unauthorized("patientUpdate")
            /\ UNCHANGED patients
       ELSE IF id \notin DOMAIN patients \/ ~patients[id].ativo
       THEN /\ resp' = Reply("patientUpdate", 404, "Paciente nao encontrado")
            /\ UNCHANGED patients
       ELSE /\ patients' = rowUpdate(patients, id, data)
            /\ resp' = Reply("patientUpdate", 200, "")

\* DELETE /patients/:id that also cancels the appointments of the patient.
PatientDelete_Cascade(token, id) ==
    /\ UNCHANGED <<dentists, statusLogs, reqs>>
    /\ IF ~jwtVerifyOk(token)
       THEN /\ resp' = Unauthorized("patientDelete")
            /\ UNCHANGED <<patients, appointments>>
       ELSE IF id \notin DOMAIN patients
       THEN /\ resp' = Reply("patientDelete", 404, "Paciente nao encontrado")
            /\ UNCHANGED <<patients, appointments>>
       ELSE /\ patients' = rowUpdate(patients, id, [ativo |-> FALSE])
            /\ appointments' =
                  [i \in DOMAIN appointments |->
                      IF appointments[i].pacienteId = id
                      THEN [appointments[i] EXCEPT !.status = "cancelada"]
                      ELSE appointments[i]]
            /\ resp' = Reply("patientDelete", 200, "Paciente removido com sucesso")

\* DELETE /patients/:id (soft delete)
PatientDelete(token, id) ==
    /\ UNCHANGED <<dentists, appointments, statusLogs, reqs>>
    /\ IF ~jwtVerifyOk(token)
       THEN /\ resp' = Unauthorized("patientDelete")
            /\ UNCHANGED patients
       ELSE IF id \notin DOMAIN patients
       THEN /\ resp' = Reply("patientDelete", 404, "Paciente nao encontrado")
            /\ UNCHANGED patients
       ELSE /\ patients' = rowUpdate(patients, id, [ativo |-> FALSE])
            /\ resp' = Reply("patientDelete", 200, "Paciente removido com sucesso")

\* A CRO lookup that skips soft-deleted rows.
dentistByCro_ActiveOnly(rows, cro) == { i \in DOMAIN rows : rows[i].cro = cro /\ rows[i].ativo }

\* prisma.dentist.findUnique({ where: { cro } }): the rows holding the number,
\* soft-deleted rows included.
dentistByCro(rows, cro) == { i \in DOMAIN rows : rows[i].cro = cro }

\* POST /dentists
DentistCreate(token, cro) ==
    /\ UNCHANGED <<patients, appointments, statusLogs, reqs>>
    /\ IF ~jwtVerifyOk(token)
       THEN /\ resp' = Unauthorized("dentistCreate")
            /\ UNCHANGED dentists
       ELSE IF dentistByCro(dentists, cro) # {}
       THEN /\ resp' = Reply("dentistCreate", 400, "CRO ja cadastrado")
            /\ UNCHANGED dentists
       ELSE /\ Len(dentists) < MaxDentists
            /\ dentists' = Append(dentists, [ativo |-> DefaultAtivo, cro |-> cro])
            /\ resp' = Reply("dentistCreate", 201, "")

\* PUT /dentists/:id
DentistUpdate(token, id, data) ==
    /\ UNCHANGED <<patients, appointments, statusLogs, reqs>>
    /\ IF ~jwtVerifyOk(token)
       THEN /\ resp' = Unauthorized("dentistUpdate")
            /\ UNCHANGED dentists
       ELSE IF id \notin DOMAIN dentists \/ ~dentists[id].ativo
       THEN /\ resp' = Reply("dentistUpdate", 404, "Dentista nao encontrado")
            /\ UNCHANGED dentists
       ELSE IF /\ "cro" \in DOMAIN data
               /\ data["cro"] # dentists[id].cro
               /\ dentistByCro(dentists, data["cro"]) # {}
       THEN /\ resp' = Reply("dentistUpdate", 400, "CRO ja cadastrado")
            /\ UNCHANGED dentists
       ELSE /\ dentists' = rowUpdate(dentists, id, data)
            /\ resp' = Reply("dentistUpdate", 200, "")

\* DELETE /dentists/:id (soft delete)
DentistDelete(token, id) ==
    /\ UNCHANGED <<patients, appointments, statusLogs, reqs>>
    /\ IF ~jwtVerifyOk(token)
       THEN /\ resp' = Unauthorized("dentistDelete")
            /\ UNCHANGED dentists
       ELSE IF id \notin DOMAIN dentists
       THEN /\ resp' = Reply("dentistDelete", 404, "Dentista nao encontrado")
            /\ UNCHANGED dentists
       ELSE /\ dentists' = rowUpdate(dentists, id, [ativo |-> FALSE])
            /\ resp' = Reply("dentistDelete", 200, "Dentista removido com sucesso")

\* The reply of GET /appointments/:id when the credential is valid: the row with
\* its patient, its dentist and its log entries, newest first.
AppointmentGet(pats, dents, rows, logs, id) ==
    IF id \notin DOMAIN rows
    THEN [status |-> 404, message |-> "Consulta nao encontrada"]
    ELSE [status |-> 200, appointment |-> rows[id],
          paciente |-> pats[rows[id].pacienteId],
          dentista |-> dents[rows[id].dentistaId],
          logs |-> Desc(LogsOf(logs, id))]

\* -------------------------------------------------------------- calendar

\* Instants are integers; instant 0 is the first instant of 1 January of BaseYear.
\* A day has DayLen instants and a month MonthDays days, so that a few instants
\* span several days and months.
DayLen == 2
MonthDays == 3
BaseYear == 1999

\* The instant `new Date()` returns while the dashboard requests run.
Now == 2

\* Date.prototype.getDate(): the day of the month, from 1.
getDate(t) == ((t \div DayLen) % MonthDays) + 1

\* Date.prototype.getMonth(): the month of the year, from 0.
getMonth(t) == ((t \div DayLen) \div MonthDays) % 12

\* Date.prototype.getFullYear()
getFullYear(t) == BaseYear + (((t \div DayLen) \div MonthDays) \div 12)

\* The year `new Date(year, ...)` takes for its first argument: 0..99 stand for
\* 1900..1999.
MakeFullYear(year) == IF year \in 0..99 THEN 1900 + year ELSE year

\* new Date(year, monthIndex, day, ...time): day 0 is the last day of the month
\* before, and `tick` the instant within the day.
MakeDate(year, monthIndex, day, tick) ==
    ((((MakeFullYear(year) - BaseYear) * 12 + monthIndex) * MonthDays) + (day - 1)) * DayLen
        + tick

\* hoje.setHours(0, 0, 0, 0)
StartOfDay(t) == (t \div DayLen) * DayLen

\* fimHoje.setHours(23, 59, 59, 999): the last instant of the day.
EndOfDay(t) == StartOfDay(t) + (DayLen - 1)

\* proximos7Dias.setDate(proximos7Dias.getDate() + 7)
SevenDaysOn(t) == StartOfDay(t) + 7 * DayLen

\* ------------------------------------------------------- dashboard routes

\* prisma.appointment.count / findMany with a where on dataHoraInicio { gte, lte }
\* and on the status: the ids of the matching rows.
appointmentsWhere(rows, gte, lte, statuses) ==
    { i \in DOMAIN rows :
        /\ rows[i].dataHoraInicio >= gte
        /\ rows[i].dataHoraInicio <= lte
        /\ rows[i].status \in statuses }

\* status: { notIn: ['cancelada'] }
NotCancelada == Statuses \ {"cancelada"}

\* A request of GET /dashboard/stats in flight: the await it is suspended at and
\* the counts its queries have returned so far.
StatsRequest(pc, counts) == [pc |-> pc, counts |-> counts]

\* GET /dashboard/stats arrives: request.jwtVerify(), then the three dates.
StatsBegin(s, token) ==
    /\ reqs[s].pc = "idle"
    /\ IF ~jwtVerifyOk(token)
       THEN /\ resp' = Unauthorized("stats")
            /\ UNCHANGED reqs
       ELSE /\ reqs' = [reqs EXCEPT ![s] = StatsRequest("consultasHoje", <<>>)]
            /\ UNCHANGED resp
    /\ UNCHANGED <<patients, dentists, appointments, statusLogs>>

\* The request once a count query has returned `n`: the handler stores the count
\* and suspends at the next query.
Counted(request, n, next) == StatsRequest(next, Append(request.counts, n))

\* await prisma.appointment.count (today, not cancelled)
StatsConsultasHoje(s) ==
    /\ reqs[s].pc = "consultasHoje"
    /\ reqs' = [reqs EXCEPT ![s] =
          Counted(reqs[s],
                  Cardinality(appointmentsWhere(appointments, StartOfDay(Now),
                                                EndOfDay(Now), NotCancelada)),
                  "pacientesAtivos")]
    /\ UNCHANGED <<patients, dentists, appointments, statusLogs, resp>>

\* await prisma.patient.count (active)
StatsPacientesAtivos(s) ==
    /\ reqs[s].pc = "pacientesAtivos"
    /\ reqs' = [reqs EXCEPT ![s] =
          Counted(reqs[s], Cardinality({ i \in DOMAIN patients : patients[i].ativo }),
                  "aguardando")]
    /\ UNCHANGED <<patients, dentists, appointments, statusLogs, resp>>

\* await prisma.appointment.count (today, agendada or confirmada)
StatsAguardando(s) ==
    /\ reqs[s].pc = "aguardando"
    /\ reqs' = [reqs EXCEPT ![s] =
          Counted(reqs[s],
                  Cardinality(appointmentsWhere(appointments, StartOfDay(Now),
                                                EndOfDay(Now), {"agendada", "confirmada"})),
                  "concluidas")]
    /\ UNCHANGED <<patients, dentists, appointments, statusLogs, resp>>

\* await prisma.appointment.count (today, concluida)
StatsConcluidas(s) ==
    /\ reqs[s].pc = "concluidas"
    /\ reqs' = [reqs EXCEPT ![s] =
          Counted(reqs[s],
                  Cardinality(appointmentsWhere(appointments, StartOfDay(Now),
                                                EndOfDay(Now), {"concluida"})),
                  "consultasProximos7Dias")]
    /\ UNCHANGED <<patients, dentists, appointments, statusLogs, resp>>

\* await prisma.appointment.count (today to seven days on, not cancelled)
StatsProximos7Dias(s) ==
    /\ reqs[s].pc = "consultasProximos7Dias"
    /\ reqs' = [reqs EXCEPT ![s] =
          Counted(reqs[s],
                  Cardinality(appointmentsWhere(appointments, StartOfDay(Now),
                                                SevenDaysOn(Now), NotCancelada)),
                  "dentistasAtivos")]
    /\ UNCHANGED <<patients, dentists, appointments, statusLogs, resp>>

\* await prisma.dentist.count (active), then the reply with the six counts.
StatsDentistasAtivos(s) ==
    /\ reqs[s].pc = "dentistasAtivos"
    /\ resp' = [op |-> "stats", status |-> 200, message |-> "",
                consultasHoje |-> reqs[s].counts[1],
                pacientesAtivos |-> reqs[s].counts[2],
                aguardando |-> reqs[s].counts[3],
                concluidas |-> reqs[s].counts[4],
                consultasProximos7Dias |-> reqs[s].counts[5],
                dentistasAtivos |-> Cardinality({ i \in DOMAIN dentists : dentists[i].ativo })]
    /\ reqs' = [reqs EXCEPT ![s] = Idle]
    /\ UNCHANGED <<patients, dentists, appointments, statusLogs>>

\* limit: z.coerce.number().default(10)
DefaultLimit == 10

\* The limit of a recent-appointments query: the supplied one, else the default.
LimitOf(query) == IF "limit" \in DOMAIN query THEN query["limit"] ELSE DefaultLimit

\* orderBy: { dataHoraInicio: 'asc' }: the orders the Data Store may return the
\* rows `ids` in (rows with equal starts in either order).
OrderedAsc(rows, ids) ==
    { ord \in [1..Cardinality(ids) -> ids] :
        /\ \A i, j \in DOMAIN ord : i # j => ord[i] # ord[j]
        /\ \A i, j \in DOMAIN ord :
              i < j => rows[ord[i]].dataHoraInicio <= rows[ord[j]].dataHoraInicio }

\* A findMany that ignores its `take`.
Take_All(seq, limit) == seq

\* take: limit
Take(seq, limit) == SubSeq(seq, 1, IF limit < Len(seq) THEN limit ELSE Len(seq))

\* The rows GET /dashboard/recent-appointments may return (as ids) when the
\* credential is valid: today's rows of any status, by start, the first `limit`.
RecentAppointments(rows, query) ==
    { Take(ord, LimitOf(query)) :
        ord \in OrderedAsc(rows, appointmentsWhere(rows, StartOfDay(Now), EndOfDay(Now),
                                                   Statuses)) }

\* GET /dashboard/recent-appointments
Recent(token, query) ==
    /\ UNCHANGED <<patients, dentists, appointments, statusLogs, reqs>>
    /\ IF ~jwtVerifyOk(token)
       THEN resp' = Unauthorized("recent")
       ELSE \E list \in RecentAppointments(appointments, query) :
               resp' = [op |-> "recent", status |-> 200, message |-> "",
                        query |-> query, appointments |-> list]

\* appointments.forEach: the counts per day of the month after the rows `ids`
\* have been added to the counts `acc`.
RECURSIVE forEachDay(_, _, _)
forEachDay(rows, ids, acc) ==
    IF ids = {}
    THEN acc
    ELSE LET apt == CHOOSE i \in ids : TRUE
             day == getDate(rows[apt].dataHoraInicio)
         IN  forEachDay(rows, ids \ {apt},
                        [d \in DOMAIN acc \cup {day} |->
                            IF d = day
                            THEN (IF d \in DOMAIN acc THEN acc[d] ELSE 0) + 1
                            ELSE acc[d]])

\* The appointmentsByDay of GET /dashboard/monthly: the rows of the month from
\* startDate to endDate that are not cancelled, counted by day of the month.
appointmentsByDay(rows, year, month) ==
    forEachDay(rows,
               appointmentsWhere(rows, MakeDate(year, month - 1, 1, 0),
                                 MakeDate(year, month, 0, DayLen - 1), NotCancelada),
               [d \in {} |-> 0])

\* GET /dashboard/monthly
Monthly(token, year, month) ==
    /\ UNCHANGED <<patients, dentists, appointments, statusLogs, reqs>>
    /\ IF ~jwtVerifyOk(token)
       THEN resp' = Unauthorized("monthly")
       ELSE resp' = [op |-> "monthly", status |-> 200, message |-> "",
                     year |-> year, month |-> month,
                     appointmentsByDay |-> appointmentsByDay(appointments, year, month)]

\* ------------------------------------------------------ WhatsApp service

\* A string is the sequence of its characters.
Digits == {"0", "1", "2", "3", "4", "5", "6", "7", "8", "9"}

\* The characters the drawn phone strings are made of: digits and punctuation.
PhoneChars == {"5", "1", "-", "+"}

\* phone.replace(/\D/g, '')
removeNonDigits(phone) == SelectSeq(phone, LAMBDA c : c \in Digits)

\* cleaned.startsWith('55')
startsWith55(cleaned) == Len(cleaned) >= 2 /\ cleaned[1] = "5" /\ cleaned[2] = "5"

\* A formatting that puts the country code in front of every number.
formatPhoneNumber_AlwaysPrefix(phone) == <<"5", "5">> \o removeNonDigits(phone)

\* WhatsAppService.formatPhoneNumber
formatPhoneNumber(phone) ==
    IF ~startsWith55(removeNonDigits(phone))
    THEN <<"5", "5">> \o removeNonDigits(phone)
    ELSE removeNonDigits(phone)

\* A call of whatsappService.formatPhoneNumber(phone) and what it returns.
FormatPhone(phone) ==
    /\ resp' = [op |-> "formatPhoneNumber", status |-> 0, message |-> "",
                phone |-> phone, formatted |-> formatPhoneNumber(phone)]
    /\ UNCHANGED <<patients, dentists, appointments, statusLogs, reqs>>

\* The JavaScript value undefined, where a string is expected.
Undefined == "undefined"

\* Message ids the provider gives.
MessageIds == {"wamid.1", "wamid.2"}

\* Entries of response.data.messages: an object whose id may be missing.
MessageEntries == [id : MessageIds \cup {Undefined}]

\* The body of a 2xx answer of the provider: no body at all, a body without a
\* messages field, or a messages array of up to MaxMessages entries.
ResponseBodies ==
    { [hasData |-> FALSE, hasMessages |-> FALSE, messages |-> <<>>] }
        \cup { [hasData |-> TRUE, hasMessages |-> FALSE, messages |-> <<>>] }
        \cup { [hasData |-> TRUE, hasMessages |-> TRUE, messages |-> m] :
                   m \in UNION { [1..n -> MessageEntries] : n \in 0..MaxMessages } }

NoBody == [hasData |-> FALSE, hasMessages |-> FALSE, messages |-> <<>>]

\* What `await axios.post(...)` does: it resolves with a 2xx response, or
\* rejects with an error that carries the provider's response (its data may be
\* empty), or rejects with an error without a response (network failure).
ProviderOutcomes ==
    { [kind |-> "response", data |-> b, errorData |-> ""] : b \in ResponseBodies }
        \cup { [kind |-> "httpError", data |-> NoBody, errorData |-> e] :
                   e \in {"", "{error}"} }
        \cup { [kind |-> "network", data |-> NoBody, errorData |-> ""] }

\* Whether evaluating response.data.messages[0].id raises a TypeError: data or
\* messages is undefined, or the array is empty.
ReadingIdThrows(data) ==
    \/ ~data.hasData
    \/ ~data.hasMessages
    \/ Len(data.messages) = 0

\* error.response?.data || error.message, for the error the catch block holds:
\* a rejected call's response data when it is truthy, else the error's message;
\* a TypeError raised in the try block has no response.
ErrorOf(outcome) ==
    IF outcome.kind = "httpError" /\ outcome.errorData # ""
    THEN outcome.errorData
    ELSE IF outcome.kind = "httpError" THEN "Request failed with status code"
    ELSE IF outcome.kind = "network" THEN "Network Error"
    ELSE "Cannot read properties of undefined"

\* WhatsAppService.sendTextMessage: what it returns for an outcome of the
\* provider call. The whole body is inside try/catch.
sendTextMessage(data, outcome) ==
    IF outcome.kind = "response" /\ ~ReadingIdThrows(outcome.data)
    THEN [success |-> TRUE, messageId |-> outcome.data.messages[1].id,
          error |-> Undefined, to |-> data.to, text |-> data.message]
    ELSE [success |-> FALSE, messageId |-> Undefined,
          error |-> ErrorOf(outcome), to |-> data.to, text |-> data.message]

\* WhatsAppService.sendAppointmentReminder
sendAppointmentReminder(phoneNumber, outcome) ==
    sendTextMessage([to |-> phoneNumber, message |-> "lembrete"], outcome)

\* WhatsAppService.sendAppointmentConfirmation
sendAppointmentConfirmation(phoneNumber, outcome) ==
    sendTextMessage([to |-> phoneNumber, message |-> "agendada"], outcome)

\* WhatsAppService.sendAppointmentCancellation
sendAppointmentCancellation(phoneNumber, outcome) ==
    sendTextMessage([to |-> phoneNumber, message |-> "cancelada"], outcome)

\* A call of one of the senders, the provider's outcome and what is returned.
Returned(op, outcome, result) ==
    [op |-> op, status |-> 0, message |-> "", outcome |-> outcome, result |-> result]

SendTextMessage(to, message, outcome) ==
    /\ resp' = Returned("sendTextMessage", outcome,
                         sendTextMessage([to |-> to, message |-> message], outcome))
    /\ UNCHANGED <<patients, dentists, appointments, statusLogs, reqs>>

SendAppointmentReminder(phoneNumber, outcome) ==
    /\ resp' = Returned("sendAppointmentReminder", outcome,
                         sendAppointmentReminder(phoneNumber, outcome))
    /\ UNCHANGED <<patients, dentists, appointments, statusLogs, reqs>>

SendAppointmentConfirmation(phoneNumber, outcome) ==
    /\ resp' = Returned("sendAppointmentConfirmation", outcome,
                         sendAppointmentConfirmation(phoneNumber, outcome))
    /\ UNCHANGED <<patients, dentists, appointments, statusLogs, reqs>>

SendAppointmentCancellation(phoneNumber, outcome) ==
    /\ resp' = Returned("sendAppointmentCancellation", outcome,
                         sendAppointmentCancellation(phoneNumber, outcome))
    /\ UNCHANGED <<patients, dentists, appointments, statusLogs, reqs>>

\* --------------------------------------------------------------- reads

\* GET /patients/:id
PatientGet(token, id) ==
    /\ UNCHANGED <<patients, dentists, appointments, statusLogs, reqs>>
    /\ resp' = IF ~jwtVerifyOk(token) THEN Unauthorized("patientGet")
               ELSE PatientGetReply(patients, id)

\* GET /patients
PatientFindMany(token) ==
    /\ UNCHANGED <<patients, dentists, appointments, statusLogs, reqs>>
    /\ resp' = IF ~jwtVerifyOk(token) THEN Unauthorized("patientList")
               ELSE [op |-> "patientList", status |-> 200, message |-> "",
                     ids |-> PatientList(patients)]

\* GET /dentists/:id
DentistGet(token, id) ==
    /\ UNCHANGED <<patients, dentists, appointments, statusLogs, reqs>>
    /\ resp' = IF ~jwtVerifyOk(token) THEN Unauthorized("dentistGet")
               ELSE IF id \notin DOMAIN dentists \/ ~dentists[id].ativo
               THEN Reply("dentistGet", 404, "Dentista nao encontrado")
               ELSE Reply("dentistGet", 200, "")

\* GET /dentists
DentistFindMany(token) ==
    /\ UNCHANGED <<patients, dentists, appointments, statusLogs, reqs>>
    /\ resp' = IF ~jwtVerifyOk(token) THEN Unauthorized("dentistList")
               ELSE [op |-> "dentistList", status |-> 200, message |-> "",
                     ids |-> { i \in DOMAIN dentists : dentists[i].ativo }]

\* GET /appointments/:id
AppointmentFindUnique(token, id) ==
    /\ UNCHANGED <<patients, dentists, appointments, statusLogs, reqs>>
    /\ resp' = IF ~jwtVerifyOk(token) THEN Unauthorized("appointmentGet")
               ELSE [op |-> "appointmentGet",
                     status |-> AppointmentGet(patients, dentists, appointments,
                                               statusLogs, id).status,
                     message |-> "",
                     body |-> AppointmentGet(patients, dentists, appointments,
                                             statusLogs, id)]

\* GET /appointments: the rows matching the filters the query supplies (the ids;
\* the handler returns them by start ascending).
AppointmentFindMany(token, query) ==
    /\ UNCHANGED <<patients, dentists, appointments, statusLogs, reqs>>
    /\ resp' = IF ~jwtVerifyOk(token) THEN Unauthorized("appointmentList")
               ELSE [op |-> "appointmentList", status |-> 200, message |-> "",
                     ids |-> { i \in DOMAIN appointments :
                                 /\ "pacienteId" \in DOMAIN query =>
                                        appointments[i].pacienteId = query["pacienteId"]
                                 /\ "dentistaId" \in DOMAIN query =>
                                        appointments[i].dentistaId = query["dentistaId"]
                                 /\ "status" \in DOMAIN query =>
                                        appointments[i].status = query["status"]
                                 /\ {"dataInicio", "dataFim"} \subseteq DOMAIN query =>
                                        /\ appointments[i].dataHoraInicio >= query["dataInicio"]
                                        /\ appointments[i].dataHoraInicio <= query["dataFim"] }]

\* ---------------------------------------------- handlers, one await at a time

\* A request in flight: its body, the await it is suspended at, and what its
\* conflict query saw (`seen`: the rows the table held when the query ran).
Request(pc, token, pacienteId, dentistaId, dataHoraInicio, dataHoraFim, seen, id) ==
    [pc |-> pc, token |-> token, pacienteId |-> pacienteId, dentistaId |-> dentistaId,
     dataHoraInicio |-> dataHoraInicio, dataHoraFim |-> dataHoraFim, seen |-> seen,
     id |-> id]

At(s, pc) == [reqs[s] EXCEPT !.pc = pc]

\* POST /appointments arrives and passes request.jwtVerify().
CreateBegin(s, token, pacienteId, dentistaId, dataHoraInicio, dataHoraFim) ==
    /\ reqs[s].pc = "idle"
    /\ reqs' = [reqs EXCEPT ![s] = Request("findPatient", token, pacienteId, dentistaId,
                                            dataHoraInicio, dataHoraFim, 0, 0)]
    /\ UNCHANGED <<patients, dentists, appointments, statusLogs, resp>>

\* await prisma.patient.findUnique
CreateFindPatient(s) ==
    /\ reqs[s].pc = "findPatient"
    /\ IF PatientMissing(reqs[s].pacienteId)
       THEN /\ resp' = Reply("create", 404, "Paciente nao encontrado")
            /\ reqs' = [reqs EXCEPT ![s] = Idle]
       ELSE /\ reqs' = [reqs EXCEPT ![s] = At(s, "findDentist")]
            /\ UNCHANGED resp
    /\ UNCHANGED <<patients, dentists, appointments, statusLogs>>

\* await prisma.dentist.findUnique
CreateFindDentist(s) ==
    /\ reqs[s].pc = "findDentist"
    /\ IF DentistMissing(reqs[s].dentistaId)
       THEN /\ resp' = Reply("create", 404, "Dentista nao encontrado")
            /\ reqs' = [reqs EXCEPT ![s] = Idle]
       ELSE /\ reqs' = [reqs EXCEPT ![s] = At(s, "findConflict")]
            /\ UNCHANGED resp
    /\ UNCHANGED <<patients, dentists, appointments, statusLogs>>

\* await prisma.appointment.findFirst (the conflict query)
CreateFindConflict(s) ==
    /\ reqs[s].pc = "findConflict"
    /\ IF conflictingAppointment(appointments, 0, reqs[s].dentistaId,
                                 reqs[s].dataHoraInicio, reqs[s].dataHoraFim) # {}
       THEN /\ resp' = Reply("create", 400, "Dentista ja possui consulta neste horario")
            /\ reqs' = [reqs EXCEPT ![s] = Idle]
       ELSE /\ reqs' = [reqs EXCEPT ![s] =
                            [At(s, "createAppointment") EXCEPT !.seen = Len(appointments)]]
            /\ UNCHANGED resp
    /\ UNCHANGED <<patients, dentists, appointments, statusLogs>>

\* await prisma.appointment.create
CreateInsert(s) ==
    /\ reqs[s].pc = "createAppointment"
    /\ Len(appointments) < MaxAppts
    /\ Len(statusLogs) < MaxLogs
    /\ appointments' = appointmentCreate(appointments, reqs[s].pacienteId,
                            reqs[s].dentistaId, reqs[s].dataHoraInicio, reqs[s].dataHoraFim)
    /\ reqs' = [reqs EXCEPT ![s] = [At(s, "createLog") EXCEPT !.id = Len(appointments')]]
    /\ UNCHANGED <<patients, dentists, statusLogs, resp>>

\* await prisma.statusLog.create, then reply 201
CreateLog(s) ==
    /\ reqs[s].pc = "createLog"
    /\ statusLogs' = statusLogCreate(statusLogs, reqs[s].id, "agendada",
                                     usuarioId(jwtVerify(reqs[s].token)))
    /\ resp' = Reply("create", 201, "")
    /\ reqs' = [reqs EXCEPT ![s] = Idle]
    /\ UNCHANGED <<patients, dentists, appointments>>

\* A setStatus or cancel request in flight: the await it is suspended at, its
\* token, the id of its path and the status it writes.
StatusRequest(pc, token, id, status) ==
    [pc |-> pc, token |-> token, id |-> id, status |-> status]

\* The requests that have updated the row and still are to append their log entry.
AwaitingLog == { s \in Slots : reqs[s].pc \in {"setStatusLog", "cancelLog"} }

\* PATCH /appointments/:id/status arrives and passes request.jwtVerify().
SetStatusBegin(s, token, id, status) ==
    /\ reqs[s].pc = "idle"
    /\ jwtVerifyOk(token)
    /\ reqs' = [reqs EXCEPT ![s] = StatusRequest("setStatusFind", token, id, status)]
    /\ UNCHANGED <<patients, dentists, appointments, statusLogs, resp>>

\* await prisma.appointment.findUnique
SetStatusFind(s) ==
    /\ reqs[s].pc = "setStatusFind"
    /\ IF reqs[s].id \notin DOMAIN appointments
       THEN /\ resp' = Reply("setStatus", 404, "Consulta nao encontrada")
            /\ reqs' = [reqs EXCEPT ![s] = Idle]
       ELSE /\ reqs' = [reqs EXCEPT ![s] = At(s, "setStatusUpdate")]
            /\ UNCHANGED resp
    /\ UNCHANGED <<patients, dentists, appointments, statusLogs>>

\* await prisma.appointment.update({ data: { status } })
SetStatusUpdate(s) ==
    /\ reqs[s].pc = "setStatusUpdate"
    /\ Len(statusLogs) + Cardinality(AwaitingLog) < MaxLogs
    /\ appointments' = appointmentUpdate(appointments, reqs[s].id,
                                         [status |-> reqs[s].status])
    /\ reqs' = [reqs EXCEPT ![s] = At(s, "setStatusLog")]
    /\ UNCHANGED <<patients, dentists, statusLogs, resp>>

\* await prisma.statusLog.create, then the reply
SetStatusLog(s) ==
    /\ reqs[s].pc = "setStatusLog"
    /\ statusLogs' = statusLogCreate(statusLogs, reqs[s].id, reqs[s].status,
                                     usuarioId(jwtVerify(reqs[s].token)))
    /\ resp' = Reply("setStatus", 200, "")
    /\ reqs' = [reqs EXCEPT ![s] = Idle]
    /\ UNCHANGED <<patients, dentists, appointments>>

\* DELETE /appointments/:id arrives and passes request.jwtVerify().
CancelBegin(s, token, id) ==
    /\ reqs[s].pc = "idle"
    /\ jwtVerifyOk(token)
    /\ reqs' = [reqs EXCEPT ![s] = StatusRequest("cancelFind", token, id, "cancelada")]
    /\ UNCHANGED <<patients, dentists, appointments, statusLogs, resp>>

\* await prisma.appointment.findUnique
CancelFind(s) ==
    /\ reqs[s].pc = "cancelFind"
    /\ IF reqs[s].id \notin DOMAIN appointments
       THEN /\ resp' = Reply("cancel", 404, "Consulta nao encontrada")
            /\ reqs' = [reqs EXCEPT ![s] = Idle]
       ELSE /\ reqs' = [reqs EXCEPT ![s] = At(s, "cancelUpdate")]
            /\ UNCHANGED resp
    /\ UNCHANGED <<patients, dentists, appointments, statusLogs>>

\* await prisma.appointment.update({ data: { status: 'cancelada' } })
CancelUpdate(s) ==
    /\ reqs[s].pc = "cancelUpdate"
    /\ Len(statusLogs) + Cardinality(AwaitingLog) < MaxLogs
    /\ appointments' = appointmentUpdate(appointments, reqs[s].id,
                                         [status |-> "cancelada"])
    /\ reqs' = [reqs EXCEPT ![s] = At(s, "cancelLog")]
    /\ UNCHANGED <<patients, dentists, statusLogs, resp>>

\* await prisma.statusLog.create, then the reply
CancelLog(s) ==
    /\ reqs[s].pc = "cancelLog"
    /\ statusLogs' = statusLogCreate(statusLogs, reqs[s].id, "cancelada",
                                     usuarioId(jwtVerify(reqs[s].token)))
    /\ resp' = Reply("cancel", 200, "Consulta cancelada com sucesso")
    /\ reqs' = [reqs EXCEPT ![s] = Idle]
    /\ UNCHANGED <<patients, dentists, appointments>>

\* ---------------------------------------------------------- specifications

\* The one bookable slot of the status-lifecycle runs.
Slot01 == <<0, 1>>

\* Status lifecycle: requests run one at a time, each handler to its end; every
\* status, user, patient id and dentist id, for one bookable slot, on a Data
\* Store that accepts every write.
Next ==
    \/ \E t \in Tokens, p \in PatientIds, d \in DentistIds :
          Create(t, p, d, Slot01[1], Slot01[2], TRUE)
    \/ \E t \in Tokens, id \in 1..(MaxAppts + 1), st \in Statuses :
          SetStatus(t, id, st, TRUE)
    \/ \E t \in Tokens, id \in 1..(MaxAppts + 1) : Cancel(t, id, TRUE)

Spec == Init /\ [][Next]_vars

\* Partial failure: as above, for one user and one status change, on a Data Store
\* that may reject the log write of a request.
FaultNext ==
    \/ \E d \in 1..2, ok \in BOOLEAN :
          Create(SignToken(1), 1, d, Slot01[1], Slot01[2], ok)
    \/ \E id \in 1..(MaxAppts + 1), ok \in BOOLEAN :
          SetStatus(SignToken(1), id, "confirmada", ok)
    \/ \E id \in 1..(MaxAppts + 1), ok \in BOOLEAN : Cancel(SignToken(1), id, ok)

FaultSpec == Init /\ [][FaultNext]_vars

\* Booking: creates run one at a time for the active patient and either active
\* dentist, over every pair of instants (zero-duration and inverted intervals
\* included).
BookingNext ==
    \E d \in 1..2, s \in Times, e \in Times : Create(SignToken(1), 1, d, s, e, TRUE)

BookingSpec == Init /\ [][BookingNext]_vars

\* Re-booking: the creates of BookingNext, and cancellations.
RebookNext ==
    \/ \E d \in 1..2, s \in Times, e \in Times : Create(SignToken(1), 1, d, s, e, TRUE)
    \/ \E id \in 1..(MaxAppts + 1) : Cancel(SignToken(1), id, TRUE)

RebookSpec == Init /\ [][RebookNext]_vars

\* Rescheduling: creates for either active dentist over every pair of instants,
\* and updates of every stored or unknown id with every body that names the
\* soft-deleted patient, an active dentist and any instants.
UpdateNext ==
    \/ \E d \in 1..2, s \in Times, e \in Times : Create(SignToken(1), 1, d, s, e, TRUE)
    \/ \E id \in 1..(MaxAppts + 1), data \in UpdateBodies({2}, 1..2, Times) :
          Update(SignToken(1), id, data)

UpdateSpec == Init /\ [][UpdateNext]_vars

\* The whole clinic: every writing endpoint, requests run one at a time, with
\* one user, one bookable slot and a few values for each body.
ClinicNext ==
    \/ \E p \in {1, MaxPatients} : Create(SignToken(1), p, 2, Slot01[1], Slot01[2], TRUE)
    \/ \E id \in 1..(MaxAppts + 1), data \in UpdateBodies({2}, {}, {}) :
          Update(SignToken(1), id, data)
    \/ \E id \in 1..(MaxAppts + 1), st \in {"concluida", "cancelada"} :
          SetStatus(SignToken(1), id, st, TRUE)
    \/ \E id \in 1..(MaxAppts + 1) : Cancel(SignToken(1), id, TRUE)
    \/ PatientCreate(SignToken(1), "Bia")
    \/ PatientUpdate(SignToken(1), 1, [nome |-> "Bia"])
    \/ \E id \in {1, MaxPatients + 1} : PatientDelete(SignToken(1), id)
    \/ DentistCreate(SignToken(1), "SP-4")
    \/ DentistUpdate(SignToken(1), 2, [cro |-> "SP-4"])
    \/ DentistDelete(SignToken(1), 2)

ClinicSpec == Init /\ [][ClinicNext]_vars

\* The PUT /dentists bodies: without a license number, or with any one.
DentistBodies == { [k \in {} |-> ""] } \cup { [cro |-> c] : c \in Cros }

\* The dentist directory: creates, updates and soft deletes, one at a time, with
\* every license number and every stored or unknown id.
DentistNext ==
    \/ \E c \in Cros : DentistCreate(SignToken(1), c)
    \/ \E id \in 1..(MaxDentists + 1), data \in DentistBodies :
          DentistUpdate(SignToken(1), id, data)
    \/ \E id \in 1..(MaxDentists + 1) : DentistDelete(SignToken(1), id)

DentistSpec == Init /\ [][DentistNext]_vars

\* The starts of the appointments the dashboard counts: the instants of
\* yesterday and today, the last instant of the seven-day window and the one after.
StatsStarts == Times \cup {SevenDaysOn(Now), SevenDaysOn(Now) + 1}

\* Dashboard statistics: one GET /dashboard/stats advancing one count query at a
\* time, while appointment creates, status changes and cancellations commit.
StatsNext ==
    \/ StatsBegin("r1", SignToken(1))
    \/ StatsConsultasHoje("r1")
    \/ StatsPacientesAtivos("r1")
    \/ StatsAguardando("r1")
    \/ StatsConcluidas("r1")
    \/ StatsProximos7Dias("r1")
    \/ StatsDentistasAtivos("r1")
    \/ \E d \in 1..2, t \in StatsStarts : Create(SignToken(1), 1, d, t, t + 1, TRUE)
    \/ \E id \in 1..MaxAppts : SetStatus(SignToken(1), id, "concluida", TRUE)
    \/ \E id \in 1..MaxAppts : Cancel(SignToken(1), id, TRUE)

StatsSpec == Init /\ [][StatsNext]_vars

\* The starts of the appointments the calendar counts: the first days of the
\* first month, its last instant, the first instant of the next month, and an
\* instant of the last month of the year.
MonthlyStarts ==
    Times \cup { MakeDate(BaseYear, 0, MonthDays, DayLen - 1), MakeDate(BaseYear, 1, 1, 0),
                 MakeDate(BaseYear, 11, 1, 0) }

\* The years a calendar query may name: the year of the appointments, the one
\* after, and the same year written with two digits.
MonthlyYears == { BaseYear, BaseYear + 1, BaseYear - 1900 }

\* Monthly calendar: creates and cancellations, and calendar queries for every
\* month of those years.
MonthlyNext ==
    \/ \E d \in 1..2, t \in MonthlyStarts : Create(SignToken(1), 1, d, t, t + 1, TRUE)
    \/ \E id \in 1..MaxAppts : Cancel(SignToken(1), id, TRUE)
    \/ \E year \in MonthlyYears, month \in 1..12 : Monthly(SignToken(1), year, month)

MonthlySpec == Init /\ [][MonthlyNext]_vars

\* The queries of GET /dashboard/recent-appointments: without a limit, or with
\* one from 0 to more than the table can hold.
RecentQueries == { [k \in {} |-> 0] } \cup { [limit |-> n] : n \in 0..(MaxAppts + 1) }

\* Today's list: creates for yesterday, today and tomorrow (two dentists, so two
\* appointments may start together), status changes and cancellations, and
\* recent-appointments queries.
RecentNext ==
    \/ \E d \in 1..2, t \in 0..(EndOfDay(Now) + 1) : Create(SignToken(1), 1, d, t, t + 1, TRUE)
    \/ \E id \in 1..MaxAppts : SetStatus(SignToken(1), id, "concluida", TRUE)
    \/ \E id \in 1..MaxAppts : Cancel(SignToken(1), id, TRUE)
    \/ \E query \in RecentQueries : Recent(SignToken(1), query)

RecentSpec == Init /\ [][RecentNext]_vars

\* The credentials a request may come with: none, or a token of user 1.
Credentials == {NoToken, SignToken(1)}

\* The requests of AuthNext that come with credential `t`: one of each endpoint
\* of the patient, dentist, appointment and dashboard routes.
Requests(t) ==
    \/ Create(t, 1, 1, Slot01[1], Slot01[2], TRUE)
    \/ \E id \in 1..MaxAppts : Update(t, id, [pacienteId |-> 2])
    \/ \E id \in 1..MaxAppts : SetStatus(t, id, "concluida", TRUE)
    \/ \E id \in 1..MaxAppts : Cancel(t, id, TRUE)
    \/ \E id \in 1..MaxAppts : AppointmentFindUnique(t, id)
    \/ \E query \in { [k \in {} |-> 0], [dentistaId |-> 1], [status |-> "cancelada"] } :
          AppointmentFindMany(t, query)
    \/ PatientCreate(t, "Bia")
    \/ PatientUpdate(t, 1, [nome |-> "Bia"])
    \/ PatientDelete(t, 1)
    \/ \E id \in 1..2 : PatientGet(t, id)
    \/ PatientFindMany(t)
    \/ DentistCreate(t, "SP-4")
    \/ DentistUpdate(t, 2, [cro |-> "SP-4"])
    \/ DentistDelete(t, 2)
    \/ \E id \in 2..3 : DentistGet(t, id)
    \/ DentistFindMany(t)
    \/ Recent(t, [limit |-> 1])
    \/ Monthly(t, BaseYear, 1)

\* Credentials: every endpoint, called with and without a credential; the
\* dashboard statistics are asked for without one only.
AuthNext ==
    \/ \E t \in Credentials : Requests(t)
    \/ StatsBegin("r1", NoToken)

AuthSpec == Init /\ [][AuthNext]_vars

\* The phone number "(11) 98888-7777".
Phone11 == <<"(", "1", "1", ")", " ", "9", "8", "8", "8", "8", "-", "7", "7", "7", "7">>

\* The phone strings formatted: every string of up to MaxPhoneLen of the
\* characters, and the two written-out numbers.
PhoneInputs ==
    UNION { [1..n -> PhoneChars] : n \in 0..MaxPhoneLen }
        \cup { Phone11, <<"5", "5">> \o removeNonDigits(Phone11) }

\* Phone formatting: the service formats one string after another.
PhoneNext == \E phone \in PhoneInputs : FormatPhone(phone)

PhoneSpec == Init /\ [][PhoneNext]_vars

\* The intervals the concurrent create requests ask for: one inside the other.
RaceIntervals == { <<0, 3>>, <<1, 2>> }

\* Concurrent creates: each handler advances one await at a time, interleaved
\* with the other.
RaceNext ==
    \E s \in Slots :
        \/ \E d \in 1..2, i \in RaceIntervals :
              CreateBegin(s, SignToken(1), 1, d, i[1], i[2])
        \/ CreateFindPatient(s)
        \/ CreateFindDentist(s)
        \/ CreateFindConflict(s)
        \/ CreateInsert(s)
        \/ CreateLog(s)

RaceSpec == Init /\ [][RaceNext]_vars

\* Area codes of national numbers, two digits each; 55 is the area code of
\* Santa Maria (RS), 11 of Sao Paulo, 15 of Sorocaba, 51 of Porto Alegre.
AreaCodes == [1..2 -> {"1", "5"}]

\* Subscriber numbers: up to MaxSubscriberLen digits.
SubscriberNumbers == UNION { [1..n -> {"3", "5", "9"}] : n \in 1..MaxSubscriberLen }

\* The ways a national number is written: "1198", "11 98", "(11) 98", "11-98".
Written(area, subscriber) ==
    { area \o subscriber,
      area \o <<" ">> \o subscriber,
      <<"(">> \o area \o <<")", " ">> \o subscriber,
      area \o <<"-">> \o subscriber }

\* National numbers without the country code: area code, then subscriber number.
NationalNumbers ==
    UNION { Written(area, subscriber) :
                area \in AreaCodes, subscriber \in SubscriberNumbers }

\* Formatting of national numbers, as the notification routes do with a
\* patient's stored telefone.
NationalNext == \E phone \in NationalNumbers : FormatPhone(phone)

NationalSpec == Init /\ [][NationalNext]_vars

\* The numbers messages are sent to, formatted as the notification routes do.
Recipients == { formatPhoneNumber(phone) : phone \in {Phone11, <<"1", "5", "9">>} }

\* Sending: each sender is called with each outcome of the provider call.
SendNext ==
    \E to \in Recipients, outcome \in ProviderOutcomes :
        \/ \E message \in {"oi", "ola"} : SendTextMessage(to, message, outcome)
        \/ SendAppointmentReminder(to, outcome)
        \/ SendAppointmentConfirmation(to, outcome)
        \/ SendAppointmentCancellation(to, outcome)

SendSpec == Init /\ [][SendNext]_vars

\* Concurrent status changes: appointments are booked (each create running to
\* its end), and setStatus and cancel handlers advance one await at a time,
\* interleaved with each other.
StatusRaceNext ==
    \/ Create(SignToken(1), 1, 1, Slot01[1], Slot01[2], TRUE)
    \/ \E s \in Slots :
          \/ \E id \in 1..2, st \in {"confirmada", "concluida"} :
                SetStatusBegin(s, SignToken(1), id, st)
          \/ SetStatusFind(s)
          \/ SetStatusUpdate(s)
          \/ SetStatusLog(s)
          \/ \E id \in 1..2 : CancelBegin(s, SignToken(2), id)
          \/ CancelFind(s)
          \/ CancelUpdate(s)
          \/ CancelLog(s)

StatusRaceSpec == Init /\ [][StatusRaceNext]_vars

\* The PUT bodies sent: with or without dentistaId, without a status, with a
\* status of the enumeration and with one outside it.
PutBodies ==
    UpdateBodies({}, {2}, {})
        \cup { WithStatus(data, st) :
                   data \in UpdateBodies({}, {2}, {}), st \in {"cancelada", "paga"} }

\* Updates among status changes: one user books the slot, changes statuses,
\* cancels, and sends PUT bodies with and without a status.
PutNext ==
    \/ Create(SignToken(1), 1, 1, Slot01[1], Slot01[2], TRUE)
    \/ \E id \in 1..MaxAppts : SetStatus(SignToken(1), id, "confirmada", TRUE)
    \/ \E id \in 1..MaxAppts : Cancel(SignToken(1), id, TRUE)
    \/ \E id \in 1..(MaxAppts + 1), body \in PutBodies :
          Update(SignToken(1), id, updateAppointmentSchema(body))

PutSpec == Init /\ [][PutNext]_vars

\* The PUT /patients bodies: without a name, or with either name.
PatientBodies == { [k \in {} |-> ""] } \cup { [nome |-> n] : n \in Names }

\* The PUT /dentists bodies of the directory runs: a free and a taken number.
DirectoryDentistBodies == { [cro |-> "SP-1"], [cro |-> "SP-4"] }

\* The directory: patients and dentists are created, updated and soft-deleted,
\* one request at a time, with every stored id and, for deletes, an unknown one.
DirectoryNext ==
    \/ PatientCreate(SignToken(1), "Bia")
    \/ \E id \in 1..MaxPatients, data \in PatientBodies :
          PatientUpdate(SignToken(1), id, data)
    \/ \E id \in 1..(MaxPatients + 1) : PatientDelete(SignToken(1), id)
    \/ DentistCreate(SignToken(1), "SP-4")
    \/ \E id \in 1..MaxDentists, data \in DirectoryDentistBodies :
          DentistUpdate(SignToken(1), id, data)
    \/ \E id \in 1..(MaxDentists + 1) : DentistDelete(SignToken(1), id)

DirectorySpec == Init /\ [][DirectoryNext]_vars

\* ------------------------------------------------------------------ claims

\* The overlap test of half-open intervals [a,b) and [c,d).
Overlap(a, b, c, d) == a < d /\ c < b

WellFormed(row) == row.dataHoraInicio < row.dataHoraFim

\* Rows i and j book the same dentist, neither cancelled, for overlapping intervals.
Clash(rows, i, j) ==
    /\ rows[i].dentistaId = rows[j].dentistaId
    /\ rows[i].status # "cancelada"
    /\ rows[j].status # "cancelada"
    /\ Overlap(rows[i].dataHoraInicio, rows[i].dataHoraFim,
               rows[j].dataHoraInicio, rows[j].dataHoraFim)

DoubleBooked(rows) == \E i, j \in DOMAIN rows : i < j /\ Clash(rows, i, j)

\* C1: with requests run one at a time, no dentist ever has two non-cancelled
\* appointments with overlapping intervals, also after a cancelled appointment
\* is set back to a non-cancelled status.
C1_NoDoubleBooking == ~DoubleBooked(appointments)

\* C2: a create that inserts a row clashing with a stored row does so only with a
\* row inserted after its own conflict query ran, that is by a create running
\* concurrently with it; creates run one after the other never double-book.
C2_DoubleBookingOnlyByRace ==
    [][\A s \in Slots :
        (reqs[s].pc = "createAppointment" /\ reqs'[s].pc = "createLog")
        => \A i \in DOMAIN appointments :
              Clash(appointments', i, Len(appointments')) => i > reqs[s].seen]_vars

\* C2 (witness): two interleaved creates have double-booked a dentist.
C2_RaceDoubleBooked ==
    /\ DoubleBooked(appointments)
    /\ \A s \in Slots : reqs[s].pc = "idle"

\* C3: for every candidate interval, zero-duration and inverted ones included,
\* the conflict query of create and update (with any excluded id) matches a row
\* exactly when the row is of the dentist, not cancelled, and start < d and c < end.
C3_QueryIsOverlapTest ==
    \A x \in 0..MaxAppts, d \in DentistIds, s \in Times, e \in Times :
        conflictingAppointment(appointments, x, d, s, e) =
            { i \in DOMAIN appointments :
                /\ i # x
                /\ appointments[i].dentistaId = d
                /\ appointments[i].status # "cancelada"
                /\ Overlap(s, e, appointments[i].dataHoraInicio,
                           appointments[i].dataHoraFim) }

\* C4: a successful setStatus, to any status and from any status, sets the
\* appointment's status and adds exactly one log entry for that appointment,
\* leaving the other appointments' entries as they were; on a missing appointment
\* it replies NotFound and writes nothing.
C4_SetStatusLogsOnce ==
    [][resp'.op = "setStatus" =>
        \A id \in 1..(MaxAppts + 1), st \in Statuses, t \in Tokens :
            SetStatus(t, id, st, TRUE) =>
                IF id \in DOMAIN appointments
                THEN /\ resp' = Reply("setStatus", 200, "")
                     /\ appointments'[id].status = st
                     /\ Len(LogsOf(statusLogs', id)) = Len(LogsOf(statusLogs, id)) + 1
                     /\ statusLogs'[Len(statusLogs')].consultaId = id
                     /\ statusLogs'[Len(statusLogs')].status = st
                     /\ \A j \in DOMAIN appointments \ {id} :
                           LogsOf(statusLogs', j) = LogsOf(statusLogs, j)
                ELSE /\ resp' = Reply("setStatus", 404, "Consulta nao encontrada")
                     /\ UNCHANGED <<appointments, statusLogs>>]_vars

\* C4 (witness): a setStatus that re-entered the status the appointment was
\* already in has succeeded and logged it a second time.
C4_StatusReentered ==
    /\ resp = Reply("setStatus", 200, "")
    /\ Len(statusLogs) >= 3
    /\ statusLogs[Len(statusLogs)] = statusLogs[Len(statusLogs) - 1]
    /\ statusLogs[Len(statusLogs)].status = "concluida"
    /\ appointments[statusLogs[Len(statusLogs)].consultaId].status = "concluida"

\* C5: the log entry a create, setStatus or cancel appends names as its actor the
\* user whose login token made the request.
C5_ActorIsRequester ==
    [][\A t \in Tokens, d \in 1..2, id \in 1..MaxAppts, st \in Statuses :
        ( /\ \/ Create(t, 1, d, Slot01[1], Slot01[2], TRUE)
             \/ SetStatus(t, id, st, TRUE)
             \/ Cancel(t, id, TRUE)
          /\ Len(statusLogs') = Len(statusLogs) + 1 )
        => statusLogs'[Len(statusLogs')].usuarioId = t.sub]_vars

\* C6: when no create is in flight, every appointment row has its initial
\* 'agendada' log entry: the insert and its log write happen both or not at all.
C6_CreateAllOrNothing ==
    (\A s \in Slots : reqs[s].pc = "idle") =>
        \A i \in DOMAIN appointments :
            \E k \in DOMAIN statusLogs :
                statusLogs[k].consultaId = i /\ statusLogs[k].status = "agendada"

\* A create has just been refused (NotFound or Conflict).
CreateRefused == resp'.op = "create" /\ resp'.status \in {400, 404}

\* A create has just been accepted.
CreateAccepted == resp'.op = "create" /\ resp'.status = 201

\* C7: create checks the patient, then the dentist, then the conflict query, and
\* replies NotFound, NotFound, Conflict on the first check that fails; a refused
\* create writes no appointment and no log entry.
C7_CreateChecksInOrder ==
    /\ [](\A p \in PatientIds, d \in DentistIds, s \in Times, e \in Times :
            /\ PatientMissing(p) =>
                  CreateReply(appointments, p, d, s, e) =
                      Reply("create", 404, "Paciente nao encontrado")
            /\ (~PatientMissing(p) /\ DentistMissing(d)) =>
                  CreateReply(appointments, p, d, s, e) =
                      Reply("create", 404, "Dentista nao encontrado")
            /\ ( /\ ~PatientMissing(p)
                 /\ ~DentistMissing(d)
                 /\ conflictingAppointment(appointments, 0, d, s, e) # {} ) =>
                  CreateReply(appointments, p, d, s, e) =
                      Reply("create", 400, "Dentista ja possui consulta neste horario"))
    /\ [][CreateRefused => UNCHANGED <<appointments, statusLogs>>]_vars

\* C7 (witness): with an appointment booked, a create naming a missing or
\* inactive patient was refused with NotFound.
C7_PatientRefused ==
    /\ resp = Reply("create", 404, "Paciente nao encontrado")
    /\ Len(appointments) = 1
    /\ Len(statusLogs) = 1
    /\ appointments[1].status = "agendada"

\* The non-cancelled rows of dentist d that overlap [s,e).
Overlapping(rows, d, s, e) ==
    { i \in DOMAIN rows :
        /\ rows[i].dentistaId = d
        /\ rows[i].status # "cancelada"
        /\ Overlap(s, e, rows[i].dataHoraInicio, rows[i].dataHoraFim) }

AllWellFormed(rows) == \A i \in DOMAIN rows : WellFormed(rows[i])

\* C8: among well-formed intervals, a create (for an active patient and dentist)
\* whose interval overlaps a non-cancelled appointment of the same dentist in any
\* way replies Conflict, and a refused create writes nothing; one that overlaps
\* only other dentists' appointments is accepted.
C8_OverlapIsRefused ==
    /\ [](\A p \in PatientIds, d \in DentistIds, s \in Times, e \in Times :
            ( /\ s < e
              /\ AllWellFormed(appointments)
              /\ ~PatientMissing(p)
              /\ ~DentistMissing(d) )
            => /\ Overlapping(appointments, d, s, e) # {} =>
                     CreateReply(appointments, p, d, s, e) =
                         Reply("create", 400, "Dentista ja possui consulta neste horario")
               /\ ( /\ Overlapping(appointments, d, s, e) = {}
                    /\ \E o \in DentistIds \ {d} :
                          Overlapping(appointments, o, s, e) # {} )
                  => CreateReply(appointments, p, d, s, e) = Reply("create", 201, ""))
    /\ [][CreateRefused => UNCHANGED <<appointments, statusLogs>>]_vars
    /\ [][CreateAccepted => Len(appointments') = Len(appointments) + 1]_vars

\* C8 (witness): two dentists hold overlapping appointments, and a further create
\* overlapping them was refused with Conflict.
C8_ConflictRefused ==
    /\ resp = Reply("create", 400, "Dentista ja possui consulta neste horario")
    /\ Len(appointments) = 2
    /\ AllWellFormed(appointments)
    /\ appointments[1].dentistaId # appointments[2].dentistaId
    /\ appointments[1].dataHoraInicio < appointments[2].dataHoraInicio
    /\ appointments[2].dataHoraInicio < appointments[1].dataHoraFim
    /\ appointments[1].dataHoraFim < appointments[2].dataHoraFim
    /\ \A i \in 1..2 : appointments[i].status # "cancelada"

\* The non-cancelled rows of dentist d that [s,e) touches: it ends where the row
\* starts, or starts where the row ends.
Touching(rows, d, s, e) ==
    { i \in DOMAIN rows :
        /\ rows[i].dentistaId = d
        /\ rows[i].status # "cancelada"
        /\ (rows[i].dataHoraInicio = e \/ rows[i].dataHoraFim = s) }

\* C9: among well-formed intervals, a create whose interval touches a
\* non-cancelled appointment of the same dentist (and overlaps none) is accepted,
\* and an accepted create adds the appointment and its log entry.
C9_TouchingIsAccepted ==
    /\ [](\A p \in PatientIds, d \in DentistIds, s \in Times, e \in Times :
            ( /\ s < e
              /\ AllWellFormed(appointments)
              /\ ~PatientMissing(p)
              /\ ~DentistMissing(d)
              /\ Touching(appointments, d, s, e) # {}
              /\ Overlapping(appointments, d, s, e) = {} )
            => CreateReply(appointments, p, d, s, e) = Reply("create", 201, ""))
    /\ [][CreateAccepted =>
            /\ Len(appointments') = Len(appointments) + 1
            /\ Len(statusLogs') = Len(statusLogs) + 1
            /\ statusLogs'[Len(statusLogs')].consultaId = Len(appointments')]_vars

\* C9 (witness): a create ending exactly when a booked appointment of the same
\* dentist starts has been accepted.
C9_TouchingBooked ==
    /\ resp = Reply("create", 201, "")
    /\ Len(appointments) = 2
    /\ AllWellFormed(appointments)
    /\ appointments[1].dentistaId = appointments[2].dentistaId
    /\ appointments[2].dataHoraFim = appointments[1].dataHoraInicio
    /\ \A i \in 1..2 : appointments[i].status # "cancelada"

\* C10: a create (for an active patient and dentist) for the interval of a
\* cancelled appointment of the same dentist, or one overlapping it, is accepted
\* whenever no non-cancelled appointment of that dentist overlaps it.
C10_CancelledSlotIsFree ==
    \A p \in PatientIds, d \in DentistIds, s \in Times, e \in Times :
        ( /\ ~PatientMissing(p)
          /\ ~DentistMissing(d)
          /\ \E i \in DOMAIN appointments :
                /\ appointments[i].dentistaId = d
                /\ appointments[i].status = "cancelada"
                /\ \/ Overlap(s, e, appointments[i].dataHoraInicio,
                               appointments[i].dataHoraFim)
                   \/ ( /\ appointments[i].dataHoraInicio = s
                        /\ appointments[i].dataHoraFim = e )
          /\ Overlapping(appointments, d, s, e) = {} )
        => CreateReply(appointments, p, d, s, e) = Reply("create", 201, "")

\* The (dentist, start, end) an update of row `id` with body `data` results in.
Resulting(rows, id, data) ==
    [dentistaId |-> Field(data, rows[id], "dentistaId"),
     dataHoraInicio |-> Field(data, rows[id], "dataHoraInicio"),
     dataHoraFim |-> Field(data, rows[id], "dataHoraFim")]

\* The non-cancelled rows other than `id` that overlap what the update results in.
OthersOverlapping(rows, id, data) ==
    Overlapping(rows, Resulting(rows, id, data).dentistaId,
                Resulting(rows, id, data).dataHoraInicio,
                Resulting(rows, id, data).dataHoraFim) \ {id}

\* An update has just been refused (NotFound or Conflict).
UpdateRefused == resp'.op = "update" /\ resp'.status \in {400, 404}

\* C11: an update that supplies a dentist, start or end replies Conflict when a
\* non-cancelled appointment other than itself overlaps the resulting (dentist,
\* start, end), omitted fields taken from the stored row, and succeeds when the
\* result keeps the row's dentist and overlaps only the row's own previous
\* interval; an update of an unknown id replies NotFound; a refused update
\* leaves the appointments unchanged.
C11_UpdateRechecksConflict ==
    /\ [](\A id \in 1..(MaxAppts + 1), data \in UpdateBodies({}, 1..2, Times) :
            IF id \notin DOMAIN appointments
            THEN UpdateReply(appointments, id, data) =
                     Reply("update", 404, "Consulta nao encontrada")
            ELSE ChecksConflict(data) =>
                 /\ OthersOverlapping(appointments, id, data) # {} =>
                       UpdateReply(appointments, id, data) =
                           Reply("update", 400, "Dentista ja possui consulta neste horario")
                 /\ ( /\ OthersOverlapping(appointments, id, data) = {}
                      /\ Resulting(appointments, id, data).dentistaId =
                             appointments[id].dentistaId
                      /\ Overlap(Resulting(appointments, id, data).dataHoraInicio,
                                 Resulting(appointments, id, data).dataHoraFim,
                                 appointments[id].dataHoraInicio,
                                 appointments[id].dataHoraFim) )
                    => UpdateReply(appointments, id, data) = Reply("update", 200, ""))
    /\ [][UpdateRefused => UNCHANGED <<appointments, statusLogs>>]_vars

\* What both cancel(id) and setStatus(id, 'cancelada') do to the Data Store.
CancelledEffect(id) ==
    /\ UNCHANGED <<patients, dentists>>
    /\ IF id \in DOMAIN appointments
       THEN /\ resp'.status = 200
            /\ appointments' = [appointments EXCEPT ![id].status = "cancelada"]
            /\ statusLogs' = Append(statusLogs, statusLogs'[Len(statusLogs')])
            /\ statusLogs'[Len(statusLogs')].consultaId = id
            /\ statusLogs'[Len(statusLogs')].status = "cancelada"
       ELSE /\ resp'.status = 404
            /\ UNCHANGED <<appointments, statusLogs>>

\* C12: cancel(id) and setStatus(id, 'cancelada') have the same effect on the Data
\* Store: the row stays, with status 'cancelada', and one log entry with status
\* 'cancelada' is appended, or NotFound and no write when the id is unknown; no
\* request of any endpoint removes an appointment row.
C12_CancelIsSetStatusCancelled ==
    /\ [][resp'.op \in {"cancel", "setStatus"} =>
            \A id \in 1..(MaxAppts + 1) :
                /\ Cancel(SignToken(1), id, TRUE) => CancelledEffect(id)
                /\ SetStatus(SignToken(1), id, "cancelada", TRUE) => CancelledEffect(id)]_vars
    /\ [][DOMAIN appointments \subseteq DOMAIN appointments']_vars

\* C12 (witness): two appointments were cancelled, the last one by cancel, each
\* with its log entry, and both rows are still stored.
C12_BothCancelled ==
    /\ resp = Reply("cancel", 200, "Consulta cancelada com sucesso")
    /\ Len(appointments) = 2
    /\ \A i \in 1..2 : appointments[i].status = "cancelada"
    /\ Len(statusLogs) = 4
    /\ statusLogs[2] = [consultaId |-> 1, status |-> "cancelada", usuarioId |-> 1]
    /\ statusLogs[4] = [consultaId |-> 2, status |-> "cancelada", usuarioId |-> 1]

\* Sequence a is an initial part of sequence b.
IsPrefix(a, b) == Len(a) <= Len(b) /\ SubSeq(b, 1, Len(a)) = a

\* C13: the status log is append-only: over the requests of every writing
\* endpoint, each entry stored before a step is stored unchanged (appointment,
\* status, actor) at the same place after it, and only appointment create,
\* setStatus and cancel add an entry, one per request.
C13_StatusLogAppendOnly ==
    /\ [][IsPrefix(statusLogs, statusLogs')]_vars
    /\ [][statusLogs' # statusLogs =>
            /\ resp'.op \in {"create", "setStatus", "cancel"}
            /\ Len(statusLogs') = Len(statusLogs) + 1]_vars

\* C13 (witness): with three entries logged (a create, a status change and a
\* cancellation), an update of the appointment and a patient deletion succeeded.
C13_LoggedThenOtherWrites ==
    /\ resp = Reply("patientDelete", 200, "Paciente removido com sucesso")
    /\ Len(statusLogs) = 3
    /\ statusLogs[1].status = "agendada"
    /\ statusLogs[2].status = "concluida"
    /\ statusLogs[3].status = "cancelada"
    /\ appointments[1].pacienteId = 2

\* C14: DELETE /patients/:id on a stored patient succeeds; afterwards GET
\* /patients/:id replies NotFound and the patient list omits the patient, the row
\* is still stored with ativo = false, and GET /appointments/:id still returns
\* every appointment of the patient with the same row (status, interval) and the
\* same log entries. A soft-deleted patient stays hidden from both reads.
C14_PatientSoftDelete ==
    /\ [][resp'.op = "patientDelete" =>
            \A id \in DOMAIN patients :
                PatientDelete(SignToken(1), id) =>
                    /\ resp' = Reply("patientDelete", 200, "Paciente removido com sucesso")
                    /\ PatientGetReply(patients', id).status = 404
                    /\ id \notin PatientList(patients')
                    /\ id \in DOMAIN patients'
                    /\ patients'[id].ativo = FALSE
                    /\ \A a \in DOMAIN appointments :
                          appointments[a].pacienteId = id =>
                              /\ AppointmentGet(patients', dentists', appointments',
                                                statusLogs', a).status = 200
                              /\ AppointmentGet(patients', dentists', appointments',
                                                statusLogs', a).appointment = appointments[a]
                              /\ AppointmentGet(patients', dentists', appointments',
                                                statusLogs', a).logs =
                                     Desc(LogsOf(statusLogs, a))]_vars
    /\ [](\A id \in DOMAIN patients :
            ~patients[id].ativo =>
                /\ PatientGetReply(patients, id).status = 404
                /\ id \notin PatientList(patients))

\* C14 (witness): patient 1, who has a completed appointment with two log
\* entries, has just been soft-deleted.
C14_PatientWithHistoryDeleted ==
    /\ resp = Reply("patientDelete", 200, "Paciente removido com sucesso")
    /\ ~patients[1].ativo
    /\ Len(appointments) >= 1
    /\ appointments[1].pacienteId = 1
    /\ appointments[1].status = "concluida"
    /\ Len(LogsOf(statusLogs, 1)) = 2

\* A dentist row other than `id` (any row when id = 0) holds license number c.
HeldByAnother(id, c) == \E i \in DOMAIN dentists : i # id /\ dentists[i].cro = c

\* C15: no two dentist rows, active or soft-deleted, ever hold the same license
\* number: a create, or an update of an active dentist, with a number held by
\* another row (a soft-deleted one included) replies Conflict and leaves the
\* dentist rows unchanged, and an update that re-sends the dentist's own number
\* succeeds.
C15_CroUnique ==
    /\ [](\A i, j \in DOMAIN dentists : dentists[i].cro = dentists[j].cro => i = j)
    /\ [][resp'.op = "dentistCreate" =>
            \A c \in Cros :
                (DentistCreate(SignToken(1), c) /\ HeldByAnother(0, c)) =>
                    /\ resp' = Reply("dentistCreate", 400, "CRO ja cadastrado")
                    /\ UNCHANGED dentists]_vars
    /\ [][resp'.op = "dentistUpdate" =>
            \A id \in DOMAIN dentists, c \in Cros :
                (DentistUpdate(SignToken(1), id, [cro |-> c]) /\ dentists[id].ativo) =>
                    /\ HeldByAnother(id, c) =>
                          /\ resp' = Reply("dentistUpdate", 400, "CRO ja cadastrado")
                          /\ UNCHANGED dentists
                    /\ c = dentists[id].cro =>
                          /\ resp' = Reply("dentistUpdate", 200, "")
                          /\ UNCHANGED dentists
                    /\ ~HeldByAnother(id, c) =>
                          /\ resp' = Reply("dentistUpdate", 200, "")
                          /\ dentists'[id].cro = c]_vars

\* C15 (witness): with a fourth dentist registered and since soft-deleted, an
\* update that asked for a number already held was refused.
C15_TakenCroRefused ==
    /\ resp = Reply("dentistUpdate", 400, "CRO ja cadastrado")
    /\ Len(dentists) = 4
    /\ ~dentists[4].ativo
    /\ dentists[1].ativo
    /\ dentists[1].cro # "SP-1"

\* C17: the counts of every GET /dashboard/stats reply hold together in one state
\* of the Data Store, also when writes commit between its count queries, so every
\* reply has aguardando + concluidas <= consultasHoje <= consultasProximos7Dias.
C17_StatsIsSnapshot ==
    (resp.op = "stats" /\ resp.status = 200) =>
        /\ resp.aguardando + resp.concluidas <= resp.consultasHoje
        /\ resp.consultasHoje <= resp.consultasProximos7Dias

\* The appointments that are not cancelled and start on day `day` of month
\* `month` (1..12) of year `year`.
StartingOn(rows, year, month, day) ==
    { i \in DOMAIN rows :
        /\ rows[i].status # "cancelada"
        /\ getFullYear(rows[i].dataHoraInicio) = year
        /\ getMonth(rows[i].dataHoraInicio) + 1 = month
        /\ getDate(rows[i].dataHoraInicio) = day }

\* C18: for every year and month 1..12, the map GET /dashboard/monthly returns
\* has a key for exactly the days of that month on which an appointment that is
\* not cancelled starts, with the number of those appointments as its value (so
\* the values sum to the month's appointments that are not cancelled).
C18_MonthlyCountsByDay ==
    \A year \in MonthlyYears, month \in 1..12 :
        /\ DOMAIN appointmentsByDay(appointments, year, month) =
               { day \in 1..MonthDays : StartingOn(appointments, year, month, day) # {} }
        /\ \A day \in DOMAIN appointmentsByDay(appointments, year, month) :
               appointmentsByDay(appointments, year, month)[day] =
                   Cardinality(StartingOn(appointments, year, month, day))

\* The appointments, of any status, that start on the calendar day of `Now`.
StartingToday(rows) ==
    { i \in DOMAIN rows :
        /\ getFullYear(rows[i].dataHoraInicio) = getFullYear(Now)
        /\ getMonth(rows[i].dataHoraInicio) = getMonth(Now)
        /\ getDate(rows[i].dataHoraInicio) = getDate(Now) }

\* C19: a GET /dashboard/recent-appointments reply, for any limit >= 0 (10 when
\* omitted), lists only appointments that start today, whatever their status,
\* each once, by start ascending; it has min(limit, number starting today)
\* entries, and no appointment left out starts before a listed one.
C19_RecentIsTodayByStart ==
    (resp.op = "recent" /\ resp.status = 200) =>
        /\ \A k \in DOMAIN resp.appointments :
              resp.appointments[k] \in StartingToday(appointments)
        /\ \A k, l \in DOMAIN resp.appointments :
              k < l => /\ resp.appointments[k] # resp.appointments[l]
                       /\ appointments[resp.appointments[k]].dataHoraInicio <=
                              appointments[resp.appointments[l]].dataHoraInicio
        /\ Len(resp.appointments) =
              IF "limit" \in DOMAIN resp.query
                     /\ resp.query["limit"] < Cardinality(StartingToday(appointments))
              THEN resp.query["limit"]
              ELSE Cardinality(StartingToday(appointments))
        /\ \A i \in StartingToday(appointments) :
              (\A k \in DOMAIN resp.appointments : resp.appointments[k] # i) =>
                  \A k \in DOMAIN resp.appointments :
                      appointments[resp.appointments[k]].dataHoraInicio <=
                          appointments[i].dataHoraInicio

\* C19 (witness): of two appointments starting today, a query with limit 1 has
\* returned the earlier one, a cancelled appointment inserted after the later one.
C19_EarliestOfTwo ==
    /\ resp.op = "recent"
    /\ resp.query = [limit |-> 1]
    /\ resp.appointments = <<2>>
    /\ StartingToday(appointments) = {1, 2}
    /\ appointments[2].dataHoraInicio < appointments[1].dataHoraInicio
    /\ appointments[2].status = "cancelada"

\* C16: a request to any patient, dentist, appointment or dashboard endpoint
\* that comes without a valid credential is answered Unauthorized and leaves
\* every table of the Data Store as it was.
C16_CredentialRequired ==
    [][(Requests(NoToken) \/ StatsBegin("r1", NoToken)) =>
          /\ resp'.status = 401
          /\ UNCHANGED <<patients, dentists, appointments, statusLogs>>]_vars

DigitsOnly(str) == \A k \in DOMAIN str : str[k] \in Digits

\* C20: what formatPhoneNumber returns is made of digits only and starts with
\* "55"; formatting it again returns it unchanged; an input of digits only that
\* starts with "55" is returned unchanged; "(11) 98888-7777" gives
\* "5511988887777".
C20_PhoneFormat ==
    resp.op = "formatPhoneNumber" =>
        /\ DigitsOnly(resp.formatted)
        /\ Len(resp.formatted) >= 2
        /\ SubSeq(resp.formatted, 1, 2) = <<"5", "5">>
        /\ formatPhoneNumber(resp.formatted) = resp.formatted
        /\ (DigitsOnly(resp.phone) /\ Len(resp.phone) >= 2
                /\ SubSeq(resp.phone, 1, 2) = <<"5", "5">>)
              => resp.formatted = resp.phone
        /\ resp.phone = Phone11 =>
              resp.formatted =
                  <<"5", "5", "1", "1", "9", "8", "8", "8", "8", "7", "7", "7", "7">>

\* C20 (witness): "+55-1", whose digits already start with "55", has been
\* formatted to "551".
C20_PrefixedKept ==
    /\ resp.op = "formatPhoneNumber"
    /\ resp.phone = <<"+", "5", "5", "1">>
    /\ resp.formatted = <<"5", "5", "1">>

\* C21: for every national number without the country code (area code, then
\* subscriber number, with any punctuation), whatever the area code,
\* formatPhoneNumber returns "55" followed by all digits of the input.
C21_NationalGetsCountryCode ==
    (resp.op = "formatPhoneNumber" /\ resp.phone \in NationalNumbers) =>
        resp.formatted = <<"5", "5">> \o removeNonDigits(resp.phone)

\* C22: sendTextMessage and the reminder, confirmation and cancellation
\* senders return, for every outcome of the provider call (success, HTTP error
\* response, network failure, success response without a message id), a result
\* with a boolean success where success = true implies that a messageId is
\* present and success = false implies that an error is present.
C22_SendResultUniform ==
    resp.op \in {"sendTextMessage", "sendAppointmentReminder",
                 "sendAppointmentConfirmation", "sendAppointmentCancellation"} =>
        /\ resp.result.success \in BOOLEAN
        /\ resp.result.success => resp.result.messageId # Undefined
        /\ ~resp.result.success => resp.result.error # Undefined

\* C23: in every state in which no create, setStatus or cancel request is in
\* flight, the most recently appended status-log entry of each appointment has
\* the appointment's current status, also after two setStatus/cancel requests
\* on the same appointment ran with their steps (status update, then log
\* append) interleaved.
C23_LastLogIsCurrentStatus ==
    (\A s \in Slots : reqs[s].pc = "idle") =>
        \A id \in DOMAIN appointments :
            /\ LogsOf(statusLogs, id) # <<>>
            /\ LogsOf(statusLogs, id)[Len(LogsOf(statusLogs, id))].status
                  = appointments[id].status

\* C24: no write attaches an appointment to a patient or dentist that is
\* missing or inactive at the moment of the write: neither a create, nor an
\* update that changes pacienteId or dentistaId.
C24_AttachedOnlyToActive ==
    [][\A id \in DOMAIN appointments' :
          /\ (id \notin DOMAIN appointments
                \/ appointments'[id].pacienteId # appointments[id].pacienteId)
               => ~PatientMissing(appointments'[id].pacienteId)
          /\ (id \notin DOMAIN appointments
                \/ appointments'[id].dentistaId # appointments[id].dentistaId)
               => ~DentistMissing(appointments'[id].dentistaId)]_vars

\* C25: PUT /appointments/:id never changes an appointment's status and never
\* appends a status-log entry, whatever fields the body carries; a status
\* changes only through setStatus and cancel, and every stored status is one
\* of agendada, confirmada, em_andamento, concluida, cancelada.
C25_UpdateKeepsStatus ==
    /\ [](\A id \in DOMAIN appointments : appointments[id].status \in Statuses)
    /\ [][/\ resp'.op = "update" =>
               /\ statusLogs' = statusLogs
               /\ DOMAIN appointments' = DOMAIN appointments
               /\ \A id \in DOMAIN appointments :
                     appointments'[id].status = appointments[id].status
          /\ (\E id \in DOMAIN appointments :
                 appointments'[id].status # appointments[id].status)
               => resp'.op \in {"setStatus", "cancel"}]_vars

\* C25 (witness): appointment 1 was confirmed and then updated (its dentist
\* changed by a PUT that replied 200): it is still 'confirmada' and the log
\* holds the two entries it held before.
C25_UpdatedAfterConfirm ==
    /\ resp.op = "update" /\ resp.status = 200
    /\ Len(appointments) = 1
    /\ appointments[1].dentistaId = 2
    /\ appointments[1].status = "confirmada"
    /\ Len(statusLogs) = 2
    /\ statusLogs[2].status = "confirmada"

\* A stored row that is soft-deleted.
Inactive(rows, id) == id \in DOMAIN rows /\ ~rows[id].ativo

\* C26: soft delete is absorbing and idempotent for patients and dentists: a
\* row with ativo = false is never changed again and never removed, a PUT on
\* it replies 404 and leaves it unchanged, a repeated DELETE on it replies 200
\* and changes nothing, and a DELETE replies 404 only for an id that was never
\* stored.
C26_SoftDeleteAbsorbing ==
    [][/\ \A id \in DOMAIN patients :
             /\ id \in DOMAIN patients'
             /\ ~patients[id].ativo => patients'[id] = patients[id]
       /\ \A id \in DOMAIN dentists :
             /\ id \in DOMAIN dentists'
             /\ ~dentists[id].ativo => dentists'[id] = dentists[id]
       /\ \A id \in 1..(MaxPatients + 1) :
             /\ (Inactive(patients, id)
                   /\ \E data \in PatientBodies : PatientUpdate(SignToken(1), id, data))
                  => resp'.status = 404 /\ patients' = patients
             /\ PatientDelete(SignToken(1), id) =>
                  IF id \in DOMAIN patients
                  THEN /\ resp'.status = 200
                       /\ ~patients'[id].ativo
                       /\ ~patients[id].ativo => patients' = patients
                  ELSE resp'.status = 404 /\ patients' = patients
       /\ \A id \in 1..(MaxDentists + 1) :
             /\ (Inactive(dentists, id)
                   /\ \E data \in DirectoryDentistBodies :
                         DentistUpdate(SignToken(1), id, data))
                  => resp'.status = 404 /\ dentists' = dentists
             /\ DentistDelete(SignToken(1), id) =>
                  IF id \in DOMAIN dentists
                  THEN /\ resp'.status = 200
                       /\ ~dentists'[id].ativo
                       /\ ~dentists[id].ativo => dentists' = dentists
                  ELSE resp'.status = 404 /\ dentists' = dentists]_vars

\* C26 (witness): the patient table is full and every patient soft-deleted,
\* both dentists that were active are soft-deleted, and a PUT /patients/:id on
\* one of the stored rows has been refused with 404.
C26_PutOnDeletedRefused ==
    /\ resp.op = "patientUpdate" /\ resp.status = 404
    /\ Len(patients) = MaxPatients
    /\ \A id \in DOMAIN patients : ~patients[id].ativo
    /\ ~dentists[1].ativo /\ ~dentists[2].ativo

====
